---- MODULE Spec2Model ----
(***************************************************************************)
(* MSC container tracker: the single-session polling and extraction loop   *)
(* of src/app.py (track_containers, fed by the Streamlit text area) and    *)
(* src/main.py (main, fed by the "Container Number" column of data.xlsx).  *)
(*                                                                         *)
(* Texts are sequences of one-character strings.  An optional value (a     *)
(* Python None or a str; a locator that raises or returns an element) is a *)
(* sequence of zero or one texts: <<>> is None / "raised", <<t>> is t.     *)
(***************************************************************************)
EXTENDS Integers, Sequences, FiniteSets, TLC

\* ------------------------------------------------------------------ bounds
MaxIds == 2          \* longest input (lines of the text area, rows of the sheet)
BigLen == 201        \* length of the long results-region text (> SnapLen)

\* ------------------------------------------------------- program constants
SnapLen == 200       \* get_results_snapshot: text[:200]
Timeout == 600       \* wait_for_change(timeout=6), in 1/100 s
Sleep == 12          \* time.sleep(0.12), in 1/100 s
NSelectors == 3      \* close_cookie_popup_if_present: len(selectors)

\* ------------------------------------------------------------------- texts
WS == {" "}
None == <<>>
Some(t) == <<t>>
NA == <<"N", ".", "A">>

Rep(c, n) == [i \in 1..n |-> c]

RECURSIVE LStrip(_)
LStrip(s) == IF s # <<>> /\ Head(s) \in WS THEN LStrip(Tail(s)) ELSE s

RECURSIVE RStrip(_)
RStrip(s) ==
  IF s # <<>> /\ s[Len(s)] \in WS THEN RStrip(SubSeq(s, 1, Len(s) - 1)) ELSE s

\* str.strip()
Strip(s) == RStrip(LStrip(s))

\* s[:n]
Take(s, n) == SubSeq(s, 1, IF Len(s) < n THEN Len(s) ELSE n)

UpperChar(c) == CASE c = "n" -> "N" [] c = "a" -> "A" [] OTHER -> c

\* str.upper()
Upper(s) == [i \in 1..Len(s) |-> UpperChar(s[i])]

RECURSIVE Collapse(_)
Collapse(s) ==
  IF Len(s) < 2 THEN s
  ELSE IF s[1] \in WS /\ s[2] \in WS THEN Collapse(Tail(s))
  ELSE <<s[1]>> \o Collapse(Tail(s))

\* XPath normalize-space(): trimmed, inner runs of whitespace collapsed
NormalizeSpace(s) == Collapse(Strip(s))

\* Python "x or None" on a str
OrNone(t) == IF t = <<>> THEN None ELSE Some(t)

\* str(cell) of a pandas cell: an empty cell is NaN and prints as "nan"
PyStr(cell) == IF cell = <<>> THEN <<"n", "a", "n">> ELSE cell

\* ---------------------------------------------------------------- the page
\* What the remote page shows, as far as the locators of the program see it:
\*   region  the first element matching ".msc-flow-tracking__data,
\*           .msc-flow-tracking__cell": <<>> when absent, else <<its text>>
\*   stale   reading an element's .text raises (StaleElementReference)
\*   eta     the span following the 'POD ETA' heading, <<>> when absent
\*   pod     the span following 'Port of Discharge', <<>> when absent
\*   five    texts of the data-value spans of cell--five, in document order
\*   vessel  texts of the data-value spans of the cells that hold a
\*           'Vessel'/'Voyage' label, in document order
\*   six     the data-value spans of cell--six, in document order, each
\*           with tip = TRUE when it lies inside the tooltip
Span(t, tip) == [text |-> t, tip |-> tip]

PageBlank ==
  [region |-> <<>>, stale |-> FALSE, eta |-> <<>>, pod |-> <<>>,
   five |-> <<>>, vessel |-> <<>>, six |-> <<>>]

\* a full result; the first span of cell--five reads N.A and is skipped
PageFull ==
  [region |-> << <<" ", "R", "1", " ">> >>, stale |-> FALSE,
   eta |-> << <<" ", "E">> >>, pod |-> << <<"P">> >>,
   five |-> << NA, <<"V">> >>, vessel |-> << NA, <<"V">> >>,
   six |-> << Span(<<"F">>, FALSE) >>]

\* a result made of placeholders in several spellings, under a results
\* region whose first cell is blank
PageSentinel ==
  [region |-> << <<" ", " ">> >>, stale |-> FALSE,
   eta |-> << NA >>, pod |-> << <<" ", "n", ".", "a", " ">> >>,
   five |-> << <<"n", ".", "a">> >>, vessel |-> << <<"n", ".", "a">> >>,
   six |-> << Span(<<" ", "N", ".", "A">>, FALSE), Span(<<"N", ".", "a">>, TRUE) >>]

\* a long results region; Port of Discharge is there but empty, cell--five
\* holds only N.A while another cell labelled Vessel holds a value, and the
\* first span of cell--six is empty while its tooltip holds a value
PageLong ==
  [region |-> << <<" ">> \o Rep("x", BigLen) >>, stale |-> FALSE,
   eta |-> << <<"E">> >>, pod |-> << <<" ">> >>,
   five |-> << <<" ", "N", ".", "A", " ">> >>, vessel |-> << <<"W">>, NA >>,
   six |-> << Span(<<" ">>, FALSE), Span(<<"T">>, TRUE) >>]

\* the elements are found but reading their text raises
PageStale == [PageFull EXCEPT !.stale = TRUE]

Pages == {PageBlank, PageFull, PageSentinel, PageLong, PageStale}

\* get_results_snapshot without the [:200] slice
SnapshotUntruncated(p) ==
  IF p.region = <<>> \/ p.stale THEN <<>> ELSE Strip(p.region[1])

\* find_element(...) then el.text.strip()[:200]; any exception gives ""
get_results_snapshot(p) ==
  IF p.region = <<>> \/ p.stale THEN <<>>
  ELSE Take(Strip(p.region[1]), SnapLen)

\* ------------------------------------------------- extract_tracking_data
Fields == {"ETA", "Port of Discharge", "Vessel/Voyage", "Equipment Handling Facility"}

\* d[k] = v on a Python dict
SetKey(d, k, v) == [x \in DOMAIN d \cup {k} |-> IF x = k THEN v ELSE d[x]]

\* {**a, **b}
Merge(a, b) ==
  [x \in DOMAIN a \cup DOMAIN b |-> IF x \in DOMAIN b THEN b[x] ELSE a[x]]

\* InitData as "data = {}": a key exists only once a locator has set it
InitDataEmpty == [k \in {} |-> None]

\* data = {"ETA": None, "Port of Discharge": None, ...}
InitData == [k \in Fields |-> None]

\* the XPath predicate  normalize-space(text())!='N.A'
NotNA(t) == NormalizeSpace(t) # NA
SpanNotNA(sp) == NotNA(sp.text)
InTooltip(sp) == sp.tip

\* find_element(...).text.strip() of the first element of a candidate list:
\* <<>> when find_element or .text raises, else <<the stripped text>>
FirstText(p, cands) ==
  IF cands = <<>> \/ p.stale THEN None ELSE Some(Strip(cands[1]))

SpanTexts(sps) == [i \in 1..Len(sps) |-> sps[i].text]

\* the four locators and the two fallback locators of main.py
LocETA(p) == FirstText(p, p.eta)
LocPOD(p) == FirstText(p, p.pod)
LocVessel(p) == FirstText(p, SelectSeq(p.five, NotNA))
LocVessel2(p) == FirstText(p, p.vessel)
LocFacility(p) == FirstText(p, SpanTexts(SelectSeq(p.six, SpanNotNA)))
LocFacility2(p) == FirstText(p, SpanTexts(SelectSeq(p.six, InTooltip)))

\* try: data[k] = find(...).text.strip() or None   except Exception: pass
StoreOrNone(d, k, loc) == IF loc = None THEN d ELSE SetKey(d, k, OrNone(loc[1]))

\* try: t = find(...).text.strip(); if t: data[k] = t
\* except Exception: (main.py only)
\*     try: t2 = find2(...).text.strip()
\*          if t2 and t2.upper() != "N.A": data[k] = t2
\*     except Exception: pass
StoreWithFallback(e, d, k, loc, loc2) ==
  IF loc # None
    THEN IF loc[1] # <<>> THEN SetKey(d, k, Some(loc[1])) ELSE d
  ELSE IF e = "main" /\ loc2 # None /\ loc2[1] # <<>> /\ Upper(loc2[1]) # NA
    THEN SetKey(d, k, Some(loc2[1]))
  ELSE d

extract_tracking_data(e, p) ==
  LET d1 == StoreOrNone(InitData, "ETA", LocETA(p))
      d2 == StoreOrNone(d1, "Port of Discharge", LocPOD(p))
      d3 == StoreWithFallback(e, d2, "Vessel/Voyage", LocVessel(p), LocVessel2(p))
      d4 == StoreWithFallback(e, d3, "Equipment Handling Facility",
                              LocFacility(p), LocFacility2(p))
  IN  d4

\* ------------------------------------------------------------------ inputs
\* a line of the text area (after splitlines) or a cell of the
\* "Container Number" column; <<>> is a blank line / an empty cell
RawLines == {<<"A">>, <<" ", "B", " ">>, <<>>}

RECURSIVE SeqsUpTo(_, _)
SeqsUpTo(S, n) ==
  IF n = 0 THEN {<<>>}
  ELSE LET shorter == SeqsUpTo(S, n - 1)
       IN  shorter \cup {Append(q, x) : q \in shorter, x \in S}

RawInputs == SeqsUpTo(RawLines, MaxIds)

NonEmpty(t) == t # <<>>

Stripped(lines) == [i \in 1..Len(lines) |-> Strip(lines[i])]

\* ContainerList without the "if c.strip()" filter of app.py
ContainerListUnfiltered(e, lines) ==
  IF e = "app" THEN Stripped(lines)
  ELSE [i \in 1..Len(lines) |-> Strip(PyStr(lines[i]))]

\* the identifiers the loop iterates over
\*   app.py:   [c.strip() for c in container_input.splitlines() if c.strip()]
\*   main.py:  str(row["Container Number"]).strip() for every row of df
ContainerList(e, lines) ==
  IF e = "app" THEN SelectSeq(Stripped(lines), NonEmpty)
  ELSE [i \in 1..Len(lines) |-> Strip(PyStr(lines[i]))]

\* the rows the records are built from: app.py keeps the container itself,
\* main.py keeps row.to_dict(), the cell as read
RowList(e, lines) ==
  IF e = "app" THEN ContainerList(e, lines) ELSE lines

\* {"Container Number": container, **data}  /  {**row.to_dict(), **data}
Record(row, data) == Merge([k \in {"Container Number"} |-> row], data)

\* ------------------------------------------------------------------- state
VARIABLES
  entry,           \* "app" (track_containers) or "main" (main)
  raw,             \* the input as given: lines or cells
  container_list,  \* the identifiers of the loop
  pc,              \* position of the run
  idx,             \* 1-based position of the loop in container_list
  results,         \* the list results
  output,          \* <<>> until the table is returned / written, then <<table>>
  err,             \* the exception in flight ("none" when there is none)
  driver,          \* "none", "open", "closed"
  session,         \* handle of the driver in use (0: none)
  input_field,     \* reference to the located input control (0: none)
  created,         \* calls of create_driver that returned a driver
  navigated,       \* calls of driver.get that returned
  located,         \* times the input control was located
  quits,           \* calls of driver.quit
  submitted,       \* the submissions made: container, session, input control
  prev_snapshot,   \* baseline snapshot
  page,            \* what the remote page shows
  clock,           \* wait_for_change: time.time() - start, in 1/100 s
  changed,         \* result of wait_for_change
  differed,        \* observer of WaitSpec: the page's snapshot differed from
                   \* prev_snapshot at some moment before the deadline
  delay,           \* the pause made between wait_for_change and extraction
  ck_i,            \* close_cookie_popup_if_present: selector being tried
  ck_tried,        \* selectors tried
  ck_found,        \* selectors whose wait.until returned the button
  ck_clicked       \* selector whose click went through (0: none)

vars ==
  <<entry, raw, container_list, pc, idx, results, output, err, driver, session,
    input_field, created, navigated, located, quits, submitted, prev_snapshot,
    page, clock, changed, differed, delay, ck_i, ck_tried, ck_found, ck_clicked>>

inputVars == <<entry, raw>>
cookieVars == <<ck_i, ck_tried, ck_found, ck_clicked>>
countVars == <<created, navigated, located, quits>>
waitVars == <<clock, changed, differed>>

Init ==
  /\ entry \in {"app", "main"}
  /\ raw \in RawInputs
  /\ container_list = <<>>
  /\ pc = "start"
  /\ idx = 0
  /\ results = <<>>
  /\ output = <<>>
  /\ err = "none"
  /\ driver = "none"
  /\ session = 0
  /\ input_field = 0
  /\ created = 0 /\ navigated = 0 /\ located = 0 /\ quits = 0
  /\ submitted = <<>>
  /\ prev_snapshot = <<>>
  /\ page = PageBlank
  /\ clock = 0 /\ changed = FALSE /\ differed = FALSE
  /\ delay = "none"
  /\ ck_i = 0 /\ ck_tried = {} /\ ck_found = {} /\ ck_clicked = 0

\* ------------------------------------------------------------- operations
\* app.py 194-200: the button handler parses the text area; an empty list
\* only warns.  main.py 221-227: the sheet is read, every row is kept.
ReadInput ==
  /\ pc = "start"
  /\ container_list' = ContainerList(entry, raw)
  /\ pc' = IF entry = "app" /\ container_list' = <<>> THEN "done" ELSE "create"
  /\ UNCHANGED <<inputVars, idx, results, output, err, driver, session, input_field,
                 countVars, submitted, prev_snapshot, page, waitVars, delay,
                 cookieVars>>

\* driver, wait = create_driver(...): outside the try block
CreateDriver ==
  /\ pc = "create"
  /\ \E ok \in BOOLEAN :
       IF ok
         THEN /\ driver' = "open"
              /\ created' = created + 1
              /\ session' = created + 1
              /\ pc' = "navigate"
              /\ err' = err
         ELSE /\ err' = "create"
              /\ pc' = "done"
              /\ UNCHANGED <<driver, created, session>>
  /\ UNCHANGED <<inputVars, container_list, idx, results, output, input_field,
                 navigated, located, quits, submitted, prev_snapshot, page,
                 waitVars, delay, cookieVars>>

\* driver.get("https://www.msc.com/en/track-a-shipment")
Navigate ==
  /\ pc = "navigate"
  /\ \E ok \in BOOLEAN :
       IF ok
         THEN /\ navigated' = navigated + 1
              /\ pc' = "cookie"
              /\ ck_i' = 1
              /\ err' = err
         ELSE /\ err' = "navigation"
              /\ pc' = "finally"
              /\ UNCHANGED <<navigated, ck_i>>
  /\ UNCHANGED <<inputVars, container_list, idx, results, output, driver, session,
                 input_field, created, located, quits, submitted, prev_snapshot,
                 page, waitVars, delay, ck_tried, ck_found, ck_clicked>>

\* CookieTry without the break: the loop goes on after a click
CookieTryNoBreak ==
  /\ pc = "cookie"
  /\ ck_i <= NSelectors
  /\ \E o \in {"timeout", "clicked", "jsclicked", "failed"} :
       /\ ck_tried' = ck_tried \cup {ck_i}
       /\ ck_found' = IF o = "timeout" THEN ck_found ELSE ck_found \cup {ck_i}
       /\ ck_clicked' = IF o \in {"clicked", "jsclicked"} /\ ck_clicked = 0
                          THEN ck_i ELSE ck_clicked
       /\ ck_i' = ck_i + 1
  /\ UNCHANGED <<inputVars, container_list, pc, idx, results, output, err, driver,
                 session, input_field, countVars, submitted, prev_snapshot, page,
                 waitVars, delay>>

\* close_cookie_popup_if_present, one turn of "for by, sel in selectors":
\*   timeout    wait.until raised: continue
\*   clicked    btn.click() went through: break
\*   jsclicked  btn.click() raised, the scripted click went through: break
\*   failed     the button was found and scrolling to it or both clicks
\*              raised: the inner except continues with the next selector
CookieOutcomes == {"timeout", "clicked", "jsclicked", "failed"}

CookieTry ==
  /\ pc = "cookie"
  /\ ck_clicked = 0
  /\ ck_i <= NSelectors
  /\ \E o \in CookieOutcomes :
       /\ ck_tried' = ck_tried \cup {ck_i}
       /\ ck_found' = IF o = "timeout" THEN ck_found ELSE ck_found \cup {ck_i}
       /\ IF o \in {"clicked", "jsclicked"}
            THEN ck_clicked' = ck_i /\ ck_i' = ck_i
            ELSE ck_clicked' = ck_clicked /\ ck_i' = ck_i + 1
  /\ UNCHANGED <<inputVars, container_list, pc, idx, results, output, err, driver,
                 session, input_field, countVars, submitted, prev_snapshot, page,
                 waitVars, delay>>

\* the loop over the selectors ended (break, or the list is exhausted);
\* main.py then waits for the overlay to go, tolerating any failure
CookieReturn ==
  /\ pc = "cookie"
  /\ ck_clicked # 0 \/ ck_i > NSelectors
  /\ pc' = "locate"
  /\ ck_i' = 0 /\ ck_tried' = {} /\ ck_found' = {} /\ ck_clicked' = 0
  /\ UNCHANGED <<inputVars, container_list, idx, results, output, err, driver,
                 session, input_field, countVars, submitted, prev_snapshot, page,
                 waitVars, delay>>

\* input_field = wait.until(presence_of_element_located("input#trackingNumber"))
\* main.py then scrolls it into view with a script, which may raise
LocateOutcomes(e) == {"ok", "timeout"} \cup (IF e = "main" THEN {"scroll_failed"} ELSE {})

LocateInput ==
  /\ pc = "locate"
  /\ \E o \in LocateOutcomes(entry) :
       /\ IF o = "timeout"
            THEN UNCHANGED <<located, input_field>>
            ELSE located' = located + 1 /\ input_field' = located + 1
       /\ IF o = "ok"
            THEN pc' = "baseline" /\ err' = err
            ELSE pc' = "finally" /\
                 err' = (IF o = "timeout" THEN "input_not_found" ELSE "scroll")
  /\ UNCHANGED <<inputVars, container_list, idx, results, output, driver, session,
                 created, navigated, quits, submitted, prev_snapshot, page,
                 waitVars, delay, cookieVars>>

\* prev_snapshot = get_results_snapshot(driver), then the loop starts
Baseline ==
  /\ pc = "baseline"
  /\ prev_snapshot' = get_results_snapshot(page)
  /\ idx' = 1
  /\ pc' = "loop"
  /\ UNCHANGED <<inputVars, container_list, results, output, err, driver, session,
                 input_field, countVars, submitted, page, waitVars, delay,
                 cookieVars>>

\* Submit inside "try: ... except Exception: continue": a failing submit
\* is dropped and the loop goes on with the next identifier
SubmitSwallowed ==
  /\ pc = "loop"
  /\ idx <= Len(container_list)
  /\ \E o \in {"ok", "script_failed", "keys_failed"} :
       IF o = "ok"
         THEN /\ submitted' = Append(submitted,
                     [container |-> container_list[idx], session |-> session,
                      input |-> input_field])
              /\ pc' = "wait"
              /\ clock' = 0
              /\ differed' = FALSE
              /\ idx' = idx
         ELSE /\ idx' = idx + 1
              /\ UNCHANGED <<submitted, pc, clock, differed>>
  /\ UNCHANGED <<inputVars, container_list, results, output, err, driver, session,
                 input_field, countVars, prev_snapshot, page, changed, delay,
                 cookieVars>>

\* submit_container_quick: the script sets the value, then Enter is sent;
\* either call may raise, and nothing in the loop catches it
SubmitOutcomes == {"ok", "script_failed", "keys_failed"}

Submit ==
  /\ pc = "loop"
  /\ idx <= Len(container_list)
  /\ \E o \in SubmitOutcomes :
       IF o = "ok"
         THEN /\ submitted' = Append(submitted,
                     [container |-> container_list[idx], session |-> session,
                      input |-> input_field])
              /\ pc' = "wait"
              /\ clock' = 0
              /\ differed' = FALSE
              /\ err' = err
         ELSE /\ err' = "submit"
              /\ pc' = "finally"
              /\ UNCHANGED <<submitted, clock, differed>>
  /\ UNCHANGED <<inputVars, container_list, idx, results, output, driver, session,
                 input_field, countVars, prev_snapshot, page, changed, delay,
                 cookieVars>>

\* SnapshotChanged without the truthiness test: "if cur != prev_snapshot"
SnapshotDiffers(cur, prev) == cur # prev

\* wait_for_change: "if cur and cur != prev_snapshot"
SnapshotChanged(cur, prev) == cur # <<>> /\ cur # prev

\* time one turn of the polling loop takes beyond time.sleep(0.12): the
\* driver call returns at once, or is slow
Latencies == {0, 24 * Sleep}

Min(a, b) == IF a < b THEN a ELSE b

\* wait_for_change, one turn of "while time.time() < end"
Poll ==
  /\ pc = "wait"
  /\ clock < Timeout
  /\ IF SnapshotChanged(get_results_snapshot(page), prev_snapshot)
       THEN /\ changed' = TRUE
            /\ pc' = "pause"
            /\ clock' = clock
       ELSE /\ \E lat \in Latencies : clock' = Min(clock + Sleep + lat, Timeout)
            /\ UNCHANGED <<changed, pc>>
  /\ UNCHANGED <<inputVars, container_list, idx, results, output, err, driver,
                 session, input_field, countVars, submitted, prev_snapshot, page,
                 differed, delay, cookieVars>>

\* wait_for_change: the loop condition fails, return False
WaitTimeout ==
  /\ pc = "wait"
  /\ clock >= Timeout
  /\ changed' = FALSE
  /\ pc' = "pause"
  /\ UNCHANGED <<inputVars, container_list, idx, results, output, err, driver,
                 session, input_field, countVars, submitted, prev_snapshot, page,
                 clock, differed, delay, cookieVars>>

\* the pause between wait_for_change and extraction (the locals of
\* wait_for_change are gone once it has returned):
\*   app.py:   if changed: tiny_pause(0.12, 0.35)
\*   main.py:  if changed: tiny_pause(0.12, 0.35) else: tiny_pause(0.4, 0.9)
PauseKind(e, ch) ==
  IF ch THEN "settle" ELSE IF e = "main" THEN "fallback" ELSE "none"

Pause ==
  /\ pc = "pause"
  /\ delay' = PauseKind(entry, changed)
  /\ pc' = "extract"
  /\ clock' = 0 /\ differed' = FALSE
  /\ UNCHANGED <<inputVars, container_list, idx, results, output, err, driver,
                 session, input_field, countVars, submitted, prev_snapshot, page,
                 changed, cookieVars>>

\* Extract with the POD ETA lookup outside its try block: a failing
\* locator raises out of extract_tracking_data and ends the loop
ExtractUnguarded ==
  /\ pc = "extract"
  /\ IF LocETA(page) = None
       THEN /\ err' = "extract"
            /\ pc' = "finally"
            /\ results' = results
       ELSE /\ results' = Append(results,
                   Record(RowList(entry, raw)[idx], extract_tracking_data(entry, page)))
            /\ pc' = "update"
            /\ err' = err
  /\ UNCHANGED <<inputVars, container_list, idx, output, driver, session,
                 input_field, countVars, submitted, prev_snapshot, page, waitVars,
                 delay, cookieVars>>

\* data = extract_tracking_data(driver); results.append({...})
Extract ==
  /\ pc = "extract"
  /\ results' = Append(results,
                  Record(RowList(entry, raw)[idx], extract_tracking_data(entry, page)))
  /\ pc' = "update"
  /\ UNCHANGED <<inputVars, container_list, idx, output, err, driver, session,
                 input_field, countVars, submitted, prev_snapshot, page, waitVars,
                 delay, cookieVars>>

\* Update that also locates the input control again for the next turn
UpdateRelocating ==
  /\ pc = "update"
  /\ prev_snapshot' = get_results_snapshot(page)
  /\ idx' = idx + 1
  /\ pc' = "loop"
  /\ changed' = FALSE
  /\ delay' = "none"
  /\ located' = located + 1
  /\ input_field' = located + 1
  /\ UNCHANGED <<inputVars, container_list, results, output, err, driver, session,
                 created, navigated, quits, submitted, page, clock, differed,
                 cookieVars>>

\* Update without the refresh of prev_snapshot: the next wait_for_change
\* is given the baseline of the turn before
UpdateStaleBaseline ==
  /\ pc = "update"
  /\ idx' = idx + 1
  /\ pc' = "loop"
  /\ changed' = FALSE
  /\ delay' = "none"
  /\ UNCHANGED <<inputVars, container_list, results, output, err, driver, session,
                 input_field, countVars, submitted, prev_snapshot, page, clock,
                 differed, cookieVars>>

\* prev_snapshot = get_results_snapshot(driver); tiny_pause(...); next turn.
\* changed and delay are dead until the next turn assigns them.
Update ==
  /\ pc = "update"
  /\ prev_snapshot' = get_results_snapshot(page)
  /\ idx' = idx + 1
  /\ pc' = "loop"
  /\ changed' = FALSE
  /\ delay' = "none"
  /\ UNCHANGED <<inputVars, container_list, results, output, err, driver, session,
                 input_field, countVars, submitted, page, clock, differed,
                 cookieVars>>

\* LoopExit with "return pd.DataFrame(results)" as the last statement of
\* the try body: the table is built while the session is still open
LoopExitBuildsTable ==
  /\ pc = "loop"
  /\ idx > Len(container_list)
  /\ output' = <<results>>
  /\ pc' = "finally"
  /\ UNCHANGED <<inputVars, container_list, idx, results, err, driver,
                 session, input_field, countVars, submitted, prev_snapshot, page,
                 waitVars, delay, cookieVars>>

\* the for loop is exhausted: control reaches the finally block
LoopExit ==
  /\ pc = "loop"
  /\ idx > Len(container_list)
  /\ pc' = "finally"
  /\ UNCHANGED <<inputVars, container_list, idx, results, output, err, driver,
                 session, input_field, countVars, submitted, prev_snapshot, page,
                 waitVars, delay, cookieVars>>

\* Finally with driver.quit() as the last statement of the try body
\* instead of a finally block: an exception in flight skips it
QuitOnSuccessOnly ==
  /\ pc = "finally"
  /\ IF err = "none"
       THEN /\ quits' = quits + 1
            /\ driver' = "closed"
            /\ \E ok \in BOOLEAN :
                 /\ err' = IF ok THEN err ELSE "quit"
                 /\ pc' = IF ok THEN "return" ELSE "done"
       ELSE /\ pc' = "done"
            /\ UNCHANGED <<quits, driver, err>>
  /\ UNCHANGED <<inputVars, container_list, idx, results, output, session,
                 input_field, created, navigated, located, submitted,
                 prev_snapshot, page, waitVars, delay, cookieVars>>

\* finally: driver.quit(); quit itself may raise
Finally ==
  /\ pc = "finally"
  /\ quits' = quits + 1
  /\ driver' = "closed"
  /\ \E ok \in BOOLEAN :
       /\ err' = IF ok \/ err # "none" THEN err ELSE "quit"
       /\ pc' = IF err' = "none" THEN "return" ELSE "done"
  /\ UNCHANGED <<inputVars, container_list, idx, results, output, session,
                 input_field, created, navigated, located, submitted,
                 prev_snapshot, page, waitVars, delay, cookieVars>>

\* app.py: return pd.DataFrame(results)
\* main.py: pd.DataFrame(results).to_excel(OUTPUT_FILE, index=False)
Return ==
  /\ pc = "return"
  /\ output' = <<results>>
  /\ pc' = "done"
  /\ UNCHANGED <<inputVars, container_list, idx, results, err, driver, session,
                 input_field, countVars, submitted, prev_snapshot, page, waitVars,
                 delay, cookieVars>>

\* the remote page re-renders at a time of its own choosing.  The program
\* reads it in Baseline, Poll, Extract and Update, so a change matters only
\* in the positions before one of those reads.
PagePcs == {"baseline", "wait", "extract", "update"}

PageChange ==
  /\ driver = "open"
  /\ pc \in PagePcs
  /\ \E p \in Pages \ {page} : page' = p
  /\ UNCHANGED <<inputVars, container_list, pc, idx, results, output, err, driver,
                 session, input_field, countVars, submitted, prev_snapshot,
                 waitVars, delay, cookieVars>>

\* PageChange during wait_for_change, observed: differed records that the
\* page's snapshot was not prev_snapshot at some moment before the deadline
PageChangeObserved ==
  /\ driver = "open"
  /\ pc = "wait"
  /\ \E p \in Pages \ {page} :
       /\ page' = p
       /\ differed' = (differed \/ (clock < Timeout
                                    /\ get_results_snapshot(p) # prev_snapshot))
  /\ UNCHANGED <<inputVars, container_list, pc, idx, results, output, err, driver,
                 session, input_field, countVars, submitted, prev_snapshot, clock,
                 changed, delay, cookieVars>>

Step ==
  \/ ReadInput \/ CreateDriver \/ Navigate \/ CookieTry \/ CookieReturn
  \/ LocateInput \/ Baseline \/ Submit \/ Poll \/ WaitTimeout \/ Pause
  \/ Extract \/ Update \/ LoopExit \/ Finally \/ Return

Next == Step \/ PageChange

Spec == Init /\ [][Next]_vars

\* wait_for_change on its own: the run has just submitted its first
\* identifier; the baseline and the page are arbitrary.  The interpreter
\* keeps running the loop (time.sleep returns), whatever the page does.
InitWait ==
  /\ entry \in {"app", "main"}
  /\ raw = << <<"A">> >>
  /\ container_list = ContainerList(entry, raw)
  /\ pc = "wait"
  /\ idx = 1
  /\ results = <<>>
  /\ output = <<>>
  /\ err = "none"
  /\ driver = "open"
  /\ session = 1
  /\ input_field = 1
  /\ created = 1 /\ navigated = 1 /\ located = 1 /\ quits = 0
  /\ submitted = << [container |-> <<"A">>, session |-> 1, input |-> 1] >>
  /\ prev_snapshot \in {get_results_snapshot(p) : p \in Pages}
  /\ page \in Pages
  /\ clock = 0 /\ changed = FALSE
  /\ differed = (get_results_snapshot(page) # prev_snapshot)
  /\ delay = "none"
  /\ ck_i = 0 /\ ck_tried = {} /\ ck_found = {} /\ ck_clicked = 0

NextWait == Poll \/ WaitTimeout \/ PageChangeObserved

WaitSpec == InitWait /\ [][NextWait]_vars /\ WF_vars(Poll \/ WaitTimeout)

\* ================================================================== claims

\* the i-th record of a table carries the identifier ident
Belongs(rec, ident) == Strip(PyStr(rec["Container Number"])) = ident

TableMatches(table, idents) ==
  /\ Len(table) = Len(idents)
  /\ \A i \in 1..Len(table) : Belongs(table[i], idents[i])

\* the trimmed, non-empty input identifiers, in input order
TrimmedNonEmpty(lines) == SelectSeq(Stripped(lines), NonEmpty)

\* a sequence without its repeated elements, first occurrences kept
RECURSIVE Distinct(_)
Distinct(q) ==
  IF q = <<>> THEN <<>>
  ELSE LET front == SubSeq(q, 1, Len(q) - 1)
           last == q[Len(q)]
       IN  IF \E i \in 1..Len(front) : front[i] = last
             THEN Distinct(front)
             ELSE Append(Distinct(front), last)

\* what each entry point hands to the loop, computed line by line:
\* track_containers gets the trimmed non-empty lines, repeats kept;
\* main takes every row, blank or repeated, as str(cell).strip()
RECURSIVE FedToLoop(_, _)
FedToLoop(e, lines) ==
  IF lines = <<>> THEN <<>>
  ELSE LET t == Strip(IF e = "main" THEN PyStr(Head(lines)) ELSE Head(lines))
       IN  (IF e = "app" /\ t = <<>> THEN <<>> ELSE <<t>>) \o FedToLoop(e, Tail(lines))

C2_ClosedExactlyOnce ==
  /\ quits <= 1
  /\ created = 0 => quits = 0
  /\ (pc \in {"return", "done"} /\ created >= 1) => (quits = 1 /\ driver = "closed")

\* a run aborted by a failing submit of its second identifier, session closed
C2_Witness ==
  pc = "done" /\ err = "submit" /\ Len(results) = 1 /\ quits = 1

\* C3 as stated: wait_for_change returns true whenever the snapshot differed
\* from prev_snapshot at some moment before the deadline, and false otherwise.
C3_Original ==
  pc = "pause" => (changed <=> differed)

\* C3 amended: wait_for_change returns true exactly when a poll made before
\* the deadline reads a snapshot that is non-empty and differs from
\* prev_snapshot (a snapshot that became empty, or a change that was undone
\* before the next poll, does not count); it returns false only at or after
\* the deadline; every turn that does not return moves the clock forward;
\* and whatever the page does, the call returns.
C3_ReturnsOnObservedChange ==
  /\ [][(pc = "wait" /\ pc' = "pause")
          => LET cur == get_results_snapshot(page)
             IN  /\ changed' <=> (clock < Timeout /\ cur # <<>> /\ cur # prev_snapshot)
                 /\ ~changed' => clock >= Timeout]_vars
  /\ [][(pc = "wait" /\ pc' = "wait" /\ page' = page) => clock' >= clock + Sleep]_vars
  /\ <>(pc = "pause")

\* the snapshot differed before the deadline (it became empty, or the
\* change was undone before a poll) and the call timed out with false
C3_Witness ==
  pc = "pause" /\ ~changed /\ differed /\ clock >= Timeout

\* a value of a record is absent or a text that is neither empty nor the
\* sentinel in any letter case
AbsentOrReal(v) == v = None \/ (Strip(v[1]) # <<>> /\ Upper(Strip(v[1])) # NA)

\* C4 as stated: in every record, each of the four fields is absent whenever
\* the located text is empty or equals "N.A" in any letter case; no record
\* holds an empty text or a spelling of the sentinel.
C4_SentinelIsAbsent ==
  \A i \in 1..Len(results) : \A f \in Fields : AbsentOrReal(results[i][f])

\* C5: every record appended to the table has all four field keys, whatever
\* locators failed; a field none of whose locators succeeded is present with
\* the absent value.
C5_AllKeysPresent ==
  \A i \in 1..Len(results) :
    /\ Fields \subseteq DOMAIN results[i]
    /\ "Container Number" \in DOMAIN results[i]

\* a record made while every locator failed: all four values absent
C5_Witness ==
  \E i \in 1..Len(results) : \A f \in Fields : results[i][f] = None

\* the page with every element the locators of field g look at removed
Knockout(p, g) ==
  CASE g = "ETA" -> [p EXCEPT !.eta = <<>>]
    [] g = "Port of Discharge" -> [p EXCEPT !.pod = <<>>]
    [] g = "Vessel/Voyage" -> [p EXCEPT !.five = <<>>, !.vessel = <<>>]
    [] g = "Equipment Handling Facility" -> [p EXCEPT !.six = <<>>]

Causes == {"none", "create", "navigation", "input_not_found", "scroll", "submit", "quit"}

\* C6: a failing field locator never escalates: extraction raises nothing
\* (the only exceptions a run knows come from creating the driver,
\* navigation, locating or scrolling to the input, submit and quit), the
\* step after extraction has appended exactly one record and goes on to the
\* baseline update, every field of that record is what it would be had the
\* locators of any other field failed, and a run without a fatal failure
\* submits every identifier.
C6_FieldFailureStaysLocal ==
  /\ [](err \in Causes)
  /\ [][(pc = "extract" /\ pc' # "extract")
          => /\ pc' = "update"
             /\ err' = err
             /\ Len(results') = Len(results) + 1
             /\ SubSeq(results', 1, Len(results)) = results
             /\ \A g \in Fields : \A f \in Fields \ {g} :
                  results'[Len(results')][f]
                    = extract_tracking_data(entry, Knockout(page, g))[f]]_vars
  /\ []((pc = "done" /\ err = "none" /\ created = 1)
          => Len(submitted) = Len(container_list))

\* two identifiers were submitted and extracted in track_containers although
\* the Vessel/Voyage locator failed for the first (cell--five held only N.A):
\* its record has an ETA and no Vessel/Voyage
C6_Witness ==
  /\ entry = "app"
  /\ Len(submitted) = 2 /\ Len(results) = 2
  /\ results[1]["ETA"] = Some(<<"E">>) /\ results[1]["Vessel/Voyage"] = None

\* C7: a fatal failure aborts the whole run: once an exception is in flight
\* nothing more is submitted or appended, the exception stays in flight,
\* control only goes through the finally block to the end, and no table is
\* returned or written; a run that acquired its session and met no failure
\* returns the full table, one record per identifier.
C7_FatalAborts ==
  /\ [][err # "none"
          => /\ submitted' = submitted
             /\ results' = results
             /\ output' = <<>>
             /\ err' = err
             /\ pc' \in {"finally", "done"}]_vars
  /\ [](err # "none" => (output = <<>> /\ pc \in {"finally", "done"}))
  /\ []((pc = "done" /\ err = "none" /\ created = 1)
          => (output = <<results>> /\ Len(results) = Len(container_list)))

\* the submit of the second identifier failed: the run ended with one record
\* made and nothing returned
C7_Witness ==
  /\ pc = "done" /\ err = "submit" /\ output = <<>>
  /\ Len(container_list) = 2 /\ Len(results) = 1 /\ Len(submitted) = 1

\* C8 as stated: the interstitial step raises nothing, and once a locator
\* has found the button no later locator is tried.
C8_Original ==
  /\ pc = "cookie" => err = "none"
  /\ \A j \in ck_found : ck_tried \subseteq 1..j

\* C8 amended: close_cookie_popup_if_present raises nothing and returns,
\* also when every locator found nothing, and a run without a fatal failure
\* then yields one record per identifier; once a locator has found the
\* button and the click on it went through (natively or by script), no later
\* locator is tried.  A locator that finds the button but whose scroll or
\* click raises is followed by the next locator.
C8_BestEffortDismissal ==
  /\ pc = "cookie" => err = "none"
  /\ (pc = "cookie" /\ (ck_clicked # 0 \/ ck_i > NSelectors)) => ENABLED CookieReturn
  /\ ck_clicked # 0 => ck_tried \subseteq 1..ck_clicked
  /\ \A j \in ck_tried : j \in 1..NSelectors
  /\ (pc = "done" /\ err = "none" /\ created = 1) => Len(results) = Len(container_list)

\* every locator was tried and none found the button
C8_Witness ==
  pc = "cookie" /\ ck_tried = 1..NSelectors /\ ck_found = {} /\ err = "none"

\* C9: taking a snapshot raises nothing and yields at most 200 characters,
\* and the empty string when the results region is absent or its text
\* cannot be read; this holds for the baseline, for the update after each
\* extraction and for every poll of wait_for_change.
C9_SnapshotTotalAndBounded ==
  /\ [](Len(prev_snapshot) <= SnapLen)
  /\ [][(pc \in {"baseline", "update"} /\ pc' # pc)
          => /\ pc' = "loop"
             /\ err' = err
             /\ Len(prev_snapshot') <= SnapLen
             /\ (page.region = <<>> \/ page.stale) => prev_snapshot' = <<>>]_vars
  /\ [][pc = "wait" => (err' = err /\ pc' \in {"wait", "pause"})]_vars

\* the baseline was cut to 200 characters from a longer region text
C9_Witness ==
  /\ pc = "loop" /\ page = PageLong
  /\ Len(Strip(page.region[1])) > SnapLen
  /\ prev_snapshot = Rep("x", SnapLen)

\* C10: within a run the session is acquired once, the page is navigated to
\* once and the input control is located once, all before the first
\* submission; every submission uses that session and that input control.
C10_SingleSession ==
  /\ created <= 1 /\ navigated <= 1 /\ located <= 1
  /\ session \in {0, created}
  /\ submitted # <<>> => (created = 1 /\ navigated = 1 /\ located = 1)
  /\ \A i \in 1..Len(submitted) :
       submitted[i].session = 1 /\ submitted[i].input = 1

\* both identifiers of a run were submitted through the one input control
C10_Witness ==
  Len(submitted) = 2 /\ located = 1 /\ created = 1 /\ navigated = 1

\* the ordered strategy list of a field, as results of its locators: each
\* is <<>> when the locator raises, else <<the trimmed text>>
Strategies(e, p, f) ==
  CASE f = "ETA" -> << LocETA(p) >>
    [] f = "Port of Discharge" -> << LocPOD(p) >>
    [] f = "Vessel/Voyage" ->
         IF e = "main" THEN << LocVessel(p), LocVessel2(p) >> ELSE << LocVessel(p) >>
    [] f = "Equipment Handling Facility" ->
         IF e = "main" THEN << LocFacility(p), LocFacility2(p) >> ELSE << LocFacility(p) >>

\* a strategy result that is neither absent, nor empty, nor the sentinel
Usable(v) == v # None /\ v[1] # <<>> /\ Upper(v[1]) # NA

\* the first usable result of a strategy list, absent when there is none
RECURSIVE FirstUsable(_)
FirstUsable(strats) ==
  IF strats = <<>> THEN None
  ELSE IF Usable(Head(strats)) THEN Head(strats)
  ELSE FirstUsable(Tail(strats))

\* C11 as stated: for each field that defines a fallback, the value stored
\* by an extraction is the first non-absent, non-sentinel result of the
\* field's ordered strategy list (so an empty primary text lets the fallback
\* decide), and the field is absent only if no strategy yields such a result.
C11_FirstUsableStrategy ==
  [][(pc = "extract" /\ pc' = "update")
       => \A f \in Fields :
            Len(Strategies(entry, page, f)) > 1
              => results'[Len(results')][f] = FirstUsable(Strategies(entry, page, f))]_vars

\* the steps of one turn of the loop, and the position each leads to
TurnOrder ==
  [loop |-> {"wait", "finally"}, wait |-> {"pause"}, pause |-> {"extract"},
   extract |-> {"update"}, update |-> {"loop"}]

\* C12: each identifier goes through submit, wait_for_change, extraction
\* with append, and baseline update, in that order and in input order; the
\* next identifier is submitted only once the record of the one before is
\* appended; the baseline is taken before any submission and then only
\* after each extraction, and is what wait_for_change is given until then.
C12_TurnOrder ==
  /\ [][(pc \in DOMAIN TurnOrder /\ pc' # pc) => pc' \in TurnOrder[pc]]_vars
  /\ [](\A i \in 1..Len(submitted) : submitted[i].container = container_list[i])
  /\ [](pc \in {"wait", "pause", "extract"}
          => (Len(submitted) = idx /\ Len(results) = idx - 1))
  /\ [](pc \in {"update"} => (Len(submitted) = idx /\ Len(results) = idx))
  /\ [](pc \in {"loop"} => (Len(submitted) = idx - 1 /\ Len(results) = idx - 1))
  /\ [][submitted' # submitted
          => (Len(results) = Len(submitted) /\ Len(submitted') = Len(submitted) + 1)]_vars
  /\ [][(pc = "baseline" /\ pc' # pc)
          => (submitted = <<>> /\ prev_snapshot' = get_results_snapshot(page))]_vars
  /\ [][(pc = "update" /\ pc' # pc)
          => (Len(results) = Len(submitted)
              /\ prev_snapshot' = get_results_snapshot(page))]_vars
  /\ [][pc \notin {"baseline", "update"} => prev_snapshot' = prev_snapshot]_vars
  /\ [][(pc = "wait" /\ pc' = "pause" /\ changed')
          => get_results_snapshot(page) # prev_snapshot]_vars

\* the second identifier is being waited for against the baseline taken
\* after the first extraction, from a page with results
C12_Witness ==
  /\ pc = "wait" /\ idx = 2 /\ Len(submitted) = 2 /\ Len(results) = 1
  /\ prev_snapshot = get_results_snapshot(PageFull)

\* C13 as stated: in both entry points, extraction starts only after the
\* caller has paused since wait_for_change returned: the short settle delay
\* when it returned true, the longer fallback delay when it returned false.
C13_DelayBeforeExtract ==
  pc = "extract" => delay = (IF changed THEN "settle" ELSE "fallback")

\* the positions at which the next step of the run calls the driver:
\* navigate, dismiss consent, locate input, snapshot, submit, poll, extract
DriverPcs ==
  {"navigate", "cookie", "locate", "baseline", "loop", "wait", "pause",
   "extract", "update"}

\* what the calls on the driver leave behind
DriverTrace ==
  <<navigated, located, ck_tried, ck_found, ck_clicked, submitted, prev_snapshot,
    results, changed, page>>

\* C14: nothing is done on the session after it has been closed: every step
\* that calls the driver is taken while the session is open, a closed session
\* stays closed and nothing the driver calls produce changes any more, and
\* the result table is built or written only once the session is closed.
C14_NoUseAfterClose ==
  /\ [](pc \in DriverPcs => driver = "open")
  /\ [](driver = "closed" => (quits = 1 /\ pc \in {"return", "done"}))
  /\ [][driver = "closed" => (driver' = "closed" /\ DriverTrace' = DriverTrace)]_vars
  /\ [](output # <<>> => driver = "closed")
  /\ [][output' # output => (driver = "closed" /\ output' = <<results>>)]_vars

\* two identifiers were submitted and extracted, the session was closed and
\* the table was then returned
C14_Witness ==
  /\ pc = "done" /\ driver = "closed" /\ quits = 1
  /\ Len(submitted) = 2 /\ output = <<results>> /\ Len(results) = 2

====
